---- MODULE Spec2Model ----
(***************************************************************************)
(* A model of explorer.py: the metadata extraction, the file filters, the  *)
(* sort, the non-recursive scan (explore_directory), the recursive scan    *)
(* (recursive_explore over os.walk) and the part of main that sorts the    *)
(* scan's result.  Strings are sequences of one-character strings, a       *)
(* filesystem is a function from the path components below the scan root   *)
(* to the node found there, and the environment may remove a node while a  *)
(* scan runs.                                                              *)
(***************************************************************************)
EXTENDS Integers, Sequences, FiniteSets, TLC

VARIABLES
    mode,         \* "flat": explore_directory, "rec": recursive_explore
    path,         \* the path argument, a string
    show_hidden,  \* the show_hidden argument
    max_entries,  \* the max_entries argument
    depth,        \* the depth argument (optional)
    flt,          \* the ext, min_size and name arguments (each optional)
    fs,           \* the filesystem below path: components -> node
    pc,           \* the position of the running scan
    stack,        \* os.walk: the directories still to be walked, next first
    root,         \* os.walk: the components of the directory yielded last
    dirs,         \* os.walk: the dirs list of the directory yielded last
    files,        \* the names the scan's loop runs over (files / items)
    idx,          \* the loop's position in files
    level,        \* recursive_explore: the level of the directory yielded last
    stats,        \* the os.lstat result format_metadata holds
    results,      \* the results list
    log,          \* what the scan printed
    output,       \* main: the sorted data
    sort_key,     \* main: args.sort
    listed,       \* the hidden-suppressed listing explore_directory computed
    walked,       \* the directories os.walk has enumerated
    visits,       \* per directory recursive_explore handled: what it kept
    lastFilter,   \* the last call of apply_filters and what it returned
    gone          \* the nodes the environment removed during the scan

vars == <<mode, path, show_hidden, max_entries, depth, flt, fs, pc, stack, root,
          dirs, files, idx, level, stats, results, log, output, sort_key, listed,
          walked, visits, lastFilter, gone>>

cfgVars == <<mode, path, show_hidden, max_entries, depth, flt>>

----------------------------------------------------------------------------
(* Bounds of the model *)

\* the caps tried are 0..MaxCap and the default
MaxCap == 2
\* the depth limits tried are None and 0..MaxDepth
MaxDepth == 1
\* how many nodes the environment removes during one scan
MaxVanish == 1

\* the default of max_entries
DefaultMax == 5000

----------------------------------------------------------------------------
(* Strings *)

sep == "/"

\* ord() of the characters used
Ord(c) ==
    CASE c = "." -> 46
      [] c = "/" -> 47
      [] c = "0" -> 48
      [] c = "1" -> 49
      [] c = "2" -> 50
      [] c = "3" -> 51
      [] c = "4" -> 52
      [] c = "5" -> 53
      [] c = "6" -> 54
      [] c = "7" -> 55
      [] c = "8" -> 56
      [] c = "9" -> 57
      [] c = "A" -> 65
      [] c = "F" -> 70
      [] c = "a" -> 97
      [] c = "b" -> 98
      [] c = "d" -> 100
      [] c = "f" -> 102
      [] c = "g" -> 103
      [] c = "h" -> 104
      [] c = "l" -> 108
      [] c = "p" -> 112
      [] c = "q" -> 113
      [] c = "r" -> 114
      [] c = "s" -> 115

\* str.lower() of one character
LowerChar(c) ==
    CASE c = "A" -> "a"
      [] c = "F" -> "f"
      [] OTHER -> c

\* str.lower()
Lower(s) == [i \in 1..Len(s) |-> LowerChar(s[i])]

\* s[i:] , 1-based
Drop(s, n) == SubSeq(s, n + 1, Len(s))

\* s.startswith(p)
StartsWith(s, p) == Len(p) <= Len(s) /\ SubSeq(s, 1, Len(p)) = p

\* s.endswith(p)
EndsWith(s, p) == Len(p) <= Len(s) /\ SubSeq(s, Len(s) - Len(p) + 1, Len(s)) = p

\* sub in s
Contains(s, sub) ==
    \E i \in 0..(Len(s) - Len(sub)) : SubSeq(s, i + 1, i + Len(sub)) = sub

\* s.replace(old, ""): the occurrences of old, left to right and not
\* overlapping, are removed
RECURSIVE Replace(_, _)
Replace(s, old) ==
    IF s = <<>> THEN <<>>
    ELSE IF old # <<>> /\ StartsWith(s, old) THEN Replace(Drop(s, Len(old)), old)
    ELSE <<Head(s)>> \o Replace(Tail(s), old)

\* s.count(c) for one character c
RECURSIVE Count(_, _)
Count(s, c) ==
    IF s = <<>> THEN 0
    ELSE (IF Head(s) = c THEN 1 ELSE 0) + Count(Tail(s), c)

\* s < t for strings
RECURSIVE StrLess(_, _)
StrLess(s, t) ==
    IF t = <<>> THEN FALSE
    ELSE IF s = <<>> THEN TRUE
    ELSE IF Head(s) # Head(t) THEN Ord(Head(s)) < Ord(Head(t))
    ELSE StrLess(Tail(s), Tail(t))

\* os.path.join(a, b) for a relative b
Join(a, b) ==
    IF a = <<>> THEN b
    ELSE IF a[Len(a)] = sep THEN a \o b
    ELSE a \o <<sep>> \o b

\* os.path.basename(p): what follows the last separator
RECURSIVE Basename(_)
Basename(p) ==
    IF p = <<>> \/ p[Len(p)] = sep THEN <<>>
    ELSE Append(Basename(SubSeq(p, 1, Len(p) - 1)), p[Len(p)])

\* the path string the scan builds for the node at components c below top
RECURSIVE PathStr(_, _)
PathStr(top, c) ==
    IF c = <<>> THEN top
    ELSE Join(PathStr(top, SubSeq(c, 1, Len(c) - 1)), c[Len(c)])

\* the digits of the timestamp, as isoformat() prints them at fixed width
Iso(t) == <<(<<"0","1","2","3","4","5","6","7","8","9">>)[(t \div 10) + 1],
            (<<"0","1","2","3","4","5","6","7","8","9">>)[(t % 10) + 1]>>

----------------------------------------------------------------------------
(* Optional arguments: None, or a value *)

NoneStr == [set |-> FALSE, val |-> <<>>]
NoneInt == [set |-> FALSE, val |-> 0]
Some(v) == [set |-> TRUE, val |-> v]

\* Python's truth value of an optional string / an optional integer
TruthyStr(o) == o.set /\ o.val # <<>>
TruthyInt(o) == o.set /\ o.val # 0

----------------------------------------------------------------------------
(* The filesystem *)

nA == <<"a">>
nB == <<"b">>
nH == <<".", "h">>
nF == <<"F", ".", "p">>
nG == <<"g", ".", "q">>
nS == <<".", "s">>
nL == <<"l">>
nD == <<"d">>

\* the order in which the system enumerates the names of a directory
NameOrder == <<nG, nA, nS, nL, nF, nD, nH, nB>>

DirNode(r) == [kind |-> "dir", target |-> "none", size |-> 0, mtime |-> 20, readable |-> r]
FileNode(s, t) == [kind |-> "file", target |-> "none", size |-> s, mtime |-> t, readable |-> TRUE]
LinkNode(tg) == [kind |-> "link", target |-> tg, size |-> 1, mtime |-> 7, readable |-> TRUE]

\* a file, a subdirectory with a file, and a hidden file
FsScenario ==
    (<<>> :> DirNode(TRUE)) @@ (<<nF>> :> FileNode(1, 12)) @@ (<<nA>> :> DirNode(TRUE))
    @@ (<<nA, nG>> :> FileNode(2, 3)) @@ (<<nS>> :> FileNode(3, 5))

\* two levels of subdirectories and a hidden subdirectory
FsDeep ==
    (<<>> :> DirNode(TRUE)) @@ (<<nA>> :> DirNode(TRUE)) @@ (<<nA, nB>> :> DirNode(TRUE))
    @@ (<<nA, nB, nG>> :> FileNode(2, 3)) @@ (<<nA, nH>> :> DirNode(TRUE))
    @@ (<<nA, nH, nF>> :> FileNode(1, 12))

\* files, a symbolic link whose target is missing, a symbolic link to a directory
FsLinks ==
    (<<>> :> DirNode(TRUE)) @@ (<<nL>> :> LinkNode("missing")) @@ (<<nD>> :> LinkNode("dir"))
    @@ (<<nF>> :> FileNode(3, 12)) @@ (<<nG>> :> FileNode(1, 3))

\* a root whose listing is denied
FsDenied == (<<>> :> DirNode(FALSE)) @@ (<<nF>> :> FileNode(1, 12))

\* no root at all
FsMissing == [c \in {} |-> DirNode(TRUE)]

Filesystems == {FsScenario, FsDeep, FsLinks, FsDenied, FsMissing}

\* the root paths tried: plain, with a trailing separator, and one whose
\* string occurs again in the path of the subdirectory a
Paths == {<<"r">>, <<"r", "/">>, <<"/", "a">>}

Exists(f, c) == c \in DOMAIN f

\* os.listdir / os.scandir succeed on c
Listable(f, c) == Exists(f, c) /\ f[c].kind = "dir" /\ f[c].readable

\* the names os.listdir(c) returns, in enumeration order
Children(f, c) == SelectSeq(NameOrder, LAMBDA n : Exists(f, Append(c, n)))

\* os.path.isfile, os.path.isdir (both follow links), os.path.islink
IsFile(f, c) ==
    Exists(f, c) /\ (f[c].kind = "file" \/ (f[c].kind = "link" /\ f[c].target = "file"))
IsDir(f, c) ==
    Exists(f, c) /\ (f[c].kind = "dir" \/ (f[c].kind = "link" /\ f[c].target = "dir"))
IsLink(f, c) == Exists(f, c) /\ f[c].kind = "link"

\* name.startswith(".")
Hidden(n) == StartsWith(n, <<".">>)

----------------------------------------------------------------------------
(* format_metadata: os.lstat, then the record *)

NoStats == [ok |-> FALSE, size |-> 0, mtime |-> 0]

\* os.lstat(path); ok is FALSE where it raises FileNotFoundError
Lstat(f, c) ==
    IF Exists(f, c) THEN [ok |-> TRUE, size |-> f[c].size, mtime |-> f[c].mtime]
    ELSE NoStats

\* the record format_metadata returns for path p (components c) from the
\* lstat result st and the three os.path checks made on filesystem f
FormatMetadata(p, c, st, f) ==
    [name |-> Basename(p), path |-> p,
     is_file |-> IsFile(f, c), is_dir |-> IsDir(f, c), is_link |-> IsLink(f, c),
     size_bytes |-> st.size, modified |-> Iso(st.mtime)]

\* meta["level"] = l
WithLevel(meta, l) == [level |-> l] @@ meta

----------------------------------------------------------------------------
(* apply_filters *)

apply_filters_NoDirExemption(entry, ext, min_size, name) ==
    IF TruthyStr(ext) /\ ~EndsWith(entry.name, ext.val) THEN FALSE
    ELSE IF TruthyInt(min_size) /\ entry.size_bytes < min_size.val THEN FALSE
    ELSE IF TruthyStr(name) /\ ~Contains(Lower(entry.name), Lower(name.val)) THEN FALSE
    ELSE TRUE

apply_filters(entry, ext, min_size, name) ==
    IF entry.is_dir THEN TRUE
    ELSE IF TruthyStr(ext) /\ ~EndsWith(entry.name, ext.val) THEN FALSE
    ELSE IF TruthyInt(min_size) /\ entry.size_bytes < min_size.val THEN FALSE
    ELSE IF TruthyStr(name) /\ ~Contains(Lower(entry.name), Lower(name.val)) THEN FALSE
    ELSE TRUE

\* the filter settings tried: none, each alone, all three, and all three
\* given but empty or zero
FilterConfigs ==
    { [ext |-> NoneStr, min_size |-> NoneInt, name |-> NoneStr],
      [ext |-> Some(<<".", "p">>), min_size |-> NoneInt, name |-> NoneStr],
      [ext |-> NoneStr, min_size |-> Some(2), name |-> NoneStr],
      [ext |-> NoneStr, min_size |-> NoneInt, name |-> Some(<<"G">>)],
      [ext |-> Some(<<".", "q">>), min_size |-> Some(2), name |-> Some(<<"G", ".">>)],
      [ext |-> Some(<<>>), min_size |-> Some(0), name |-> Some(<<>>)] }

----------------------------------------------------------------------------
(* sort_entries *)

SortKeys == {"none", "name", "size", "modified"}

\* key(a) < key(b) for the key function of sort_key k
KeyLess(k, a, b) ==
    CASE k = "name" -> StrLess(Lower(a.name), Lower(b.name))
      [] k = "size" -> a.size_bytes < b.size_bytes
      [] k = "modified" -> StrLess(a.modified, b.modified)
      [] OTHER -> FALSE

\* e put into the sorted list s behind every element whose key is not greater
RECURSIVE Insert(_, _, _)
Insert(k, s, e) ==
    IF s = <<>> THEN <<e>>
    ELSE IF KeyLess(k, e, Head(s)) THEN <<e>> \o s
    ELSE <<Head(s)>> \o Insert(k, Tail(s), e)

\* list.sort(key=...): a stable sort
RECURSIVE StableSort(_, _)
StableSort(k, s) ==
    IF s = <<>> THEN <<>>
    ELSE Insert(k, StableSort(k, SubSeq(s, 1, Len(s) - 1)), s[Len(s)])

sort_entries(entries, k) ==
    IF k = "none" THEN entries
    ELSE SelectSeq(entries, LAMBDA e : e.is_dir)
         \o StableSort(k, SelectSeq(entries, LAMBDA e : e.is_file))

----------------------------------------------------------------------------
(* The initial states: a call of one of the two scans *)

Caps == (0..MaxCap) \cup {DefaultMax}
Depths == {NoneInt} \cup {Some(d) : d \in 0..MaxDepth}

NoCall == [called |-> FALSE, entry |-> <<>>, result |-> FALSE]

Init ==
    /\ mode \in {"flat", "rec"}
    /\ path \in Paths
    /\ show_hidden \in BOOLEAN
    /\ max_entries \in Caps
    /\ depth \in (IF mode = "rec" THEN Depths ELSE {NoneInt})
    /\ flt \in FilterConfigs
    /\ fs \in Filesystems
    /\ pc = (IF mode = "rec" THEN "walk" ELSE "listdir")
    /\ stack = (IF mode = "rec" THEN << <<>> >> ELSE <<>>)
    /\ root = <<>>
    /\ dirs = <<>>
    /\ files = <<>>
    /\ idx = 1
    /\ level = 0
    /\ stats = NoStats
    /\ results = <<>>
    /\ log = <<>>
    /\ output = <<>>
    /\ sort_key = "none"
    /\ listed = <<>>
    /\ walked = {}
    /\ visits = <<>>
    /\ lastFilter = NoCall
    /\ gone = {}

Take_OneMore(s, n) == SubSeq(s, 1, IF n + 1 < Len(s) THEN n + 1 ELSE Len(s))

\* items[:n]
Take(s, n) == SubSeq(s, 1, IF n < Len(s) THEN n ELSE Len(s))

\* the names of s that are kept when hidden names are not shown
Visible(s) == IF show_hidden THEN s ELSE SelectSeq(s, LAMBDA n : ~Hidden(n))

----------------------------------------------------------------------------
(* explore_directory *)

\* os.listdir, the hidden names dropped, the listing cut to max_entries
Listdir ==
    /\ pc = "listdir"
    /\ IF ~Exists(fs, <<>>)
       THEN /\ log' = Append(log, [type |-> "missing"])
            /\ pc' = "return"
            /\ UNCHANGED <<files, listed>>
       ELSE IF ~Listable(fs, <<>>)
       THEN /\ log' = Append(log, [type |-> "denied"])
            /\ pc' = "return"
            /\ UNCHANGED <<files, listed>>
       ELSE LET items == Visible(Children(fs, <<>>)) IN
            /\ listed' = items
            /\ log' = IF Len(items) > max_entries
                      THEN Append(log, [type |-> "truncated", dir |-> <<>>,
                                        count |-> Len(items), cap |-> max_entries])
                      ELSE log
            /\ files' = IF Len(items) > max_entries THEN Take(items, max_entries) ELSE items
            /\ pc' = IF files' = <<>> THEN "return" ELSE "item_lstat"
    /\ UNCHANGED <<cfgVars, fs, stack, root, dirs, idx, level, stats, results, output,
                   sort_key, walked, visits, lastFilter, gone>>

\* format_metadata(os.path.join(path, item)): the os.lstat call
ItemLstat ==
    /\ pc = "item_lstat"
    /\ LET st == Lstat(fs, <<files[idx]>>) IN
       IF st.ok
       THEN /\ stats' = st
            /\ pc' = "item_flags"
            /\ idx' = idx
       ELSE /\ stats' = NoStats
            /\ idx' = idx + 1
            /\ pc' = IF idx + 1 > Len(files) THEN "return" ELSE "item_lstat"
    /\ UNCHANGED <<cfgVars, fs, stack, root, dirs, files, level, results, log, output,
                   sort_key, listed, walked, visits, lastFilter, gone>>

\* format_metadata: the record; then the filters, the level and the append
ItemFlags ==
    /\ pc = "item_flags"
    /\ LET meta == FormatMetadata(PathStr(path, <<files[idx]>>), <<files[idx]>>, stats, fs)
           keep == apply_filters(meta, flt.ext, flt.min_size, flt.name)
       IN /\ lastFilter' = [called |-> TRUE, entry |-> meta, result |-> keep]
          /\ results' = IF keep THEN Append(results, WithLevel(meta, 0)) ELSE results
    /\ stats' = NoStats
    /\ idx' = idx + 1
    /\ pc' = IF idx + 1 > Len(files) THEN "return" ELSE "item_lstat"
    /\ UNCHANGED <<cfgVars, fs, stack, root, dirs, files, level, log, output, sort_key,
                   listed, walked, visits, gone>>

----------------------------------------------------------------------------
(* recursive_explore *)

\* root.replace(path, "").count(os.sep)
LevelOf(rootStr, p) == Count(Replace(rootStr, p), sep)

\* os.walk, resumed: the subdirectories left in dirs that it descends into
\* (it does not follow symbolic links), before the directories still waiting
Descend(f, top, ds) ==
    LET kept == SelectSeq(ds, LAMBDA d : ~IsLink(f, Append(top, d)))
    IN [i \in 1..Len(kept) |-> Append(top, kept[i])]

\* what is looped over after the directory's own record
AfterDir(fls) == IF fls = <<>> THEN "walk" ELSE "file_lstat"

\* os.walk yields the next directory, and the loop body down to the cap:
\* the level, the depth check, the hidden names dropped, both lists cut
Walk ==
    /\ pc = "walk"
    /\ LET stk == Descend(fs, root, dirs) \o stack IN
       IF stk = <<>>
       THEN /\ pc' = "return"
            /\ stack' = <<>>
            /\ dirs' = <<>>
            /\ UNCHANGED <<root, files, level, log, walked, visits>>
       ELSE LET top == Head(stk) IN
            /\ stack' = Tail(stk)
            /\ root' = top
            /\ walked' = walked \cup {top}
            /\ IF ~Listable(fs, top)
               THEN \* scandir fails, os.walk yields nothing for top
                    /\ dirs' = <<>>
                    /\ pc' = "walk"
                    /\ UNCHANGED <<files, level, log, visits>>
               ELSE LET names == Children(fs, top)
                        wdirs == SelectSeq(names, LAMBDA n : IsDir(fs, Append(top, n)))
                        wfiles == SelectSeq(names, LAMBDA n : ~IsDir(fs, Append(top, n)))
                        lvl == LevelOf(PathStr(path, top), path)
                        vdirs == Visible(wdirs)
                        vfiles == Visible(wfiles)
                        over == Len(vdirs) + Len(vfiles) > max_entries
                    IN
                    /\ level' = lvl
                    /\ IF depth.set /\ lvl > depth.val
                       THEN \* continue: dirs is left as os.walk filled it
                            /\ dirs' = wdirs
                            /\ files' = <<>>
                            /\ pc' = "walk"
                            /\ UNCHANGED <<log, visits>>
                       ELSE /\ dirs' = IF over THEN Take(vdirs, max_entries) ELSE vdirs
                            /\ files' = IF over THEN Take(vfiles, max_entries) ELSE vfiles
                            /\ log' = IF over
                                      THEN Append(log, [type |-> "truncated", dir |-> top,
                                                        count |-> Len(vdirs) + Len(vfiles),
                                                        cap |-> max_entries])
                                      ELSE log
                            /\ visits' = Append(visits, [dir |-> top, level |-> lvl,
                                                         count |-> Len(vdirs) + Len(vfiles),
                                                         dirs |-> dirs', files |-> files'])
                            /\ pc' = "dir_lstat"
    /\ idx' = 1
    /\ UNCHANGED <<cfgVars, fs, stats, results, output, sort_key, listed, lastFilter, gone>>

\* format_metadata(root): the os.lstat call
DirLstat ==
    /\ pc = "dir_lstat"
    /\ LET st == Lstat(fs, root) IN
       IF st.ok
       THEN /\ stats' = st
            /\ pc' = "dir_flags"
       ELSE /\ stats' = NoStats
            /\ pc' = AfterDir(files)
    /\ UNCHANGED <<cfgVars, fs, stack, root, dirs, files, idx, level, results, log, output,
                   sort_key, listed, walked, visits, lastFilter, gone>>

\* format_metadata(root): the record, with its level, appended
DirFlags ==
    /\ pc = "dir_flags"
    /\ LET dir_meta == FormatMetadata(PathStr(path, root), root, stats, fs) IN
       results' = Append(results, WithLevel(dir_meta, level))
    /\ stats' = NoStats
    /\ pc' = AfterDir(files)
    /\ UNCHANGED <<cfgVars, fs, stack, root, dirs, files, idx, level, log, output,
                   sort_key, listed, walked, visits, lastFilter, gone>>

\* format_metadata(os.path.join(root, fname)): the os.lstat call
FileLstat ==
    /\ pc = "file_lstat"
    /\ LET st == Lstat(fs, Append(root, files[idx])) IN
       IF st.ok
       THEN /\ stats' = st
            /\ pc' = "file_flags"
            /\ idx' = idx
       ELSE /\ stats' = NoStats
            /\ idx' = idx + 1
            /\ pc' = IF idx + 1 > Len(files) THEN "walk" ELSE "file_lstat"
    /\ UNCHANGED <<cfgVars, fs, stack, root, dirs, files, level, results, log, output,
                   sort_key, listed, walked, visits, lastFilter, gone>>

\* format_metadata: the record; then the level, the filters and the append
FileFlags ==
    /\ pc = "file_flags"
    /\ LET c == Append(root, files[idx])
           meta == WithLevel(FormatMetadata(PathStr(path, c), c, stats, fs), level + 1)
           keep == apply_filters(meta, flt.ext, flt.min_size, flt.name)
       IN /\ lastFilter' = [called |-> TRUE, entry |-> meta, result |-> keep]
          /\ results' = IF keep THEN Append(results, meta) ELSE results
    /\ stats' = NoStats
    /\ idx' = idx + 1
    /\ pc' = IF idx + 1 > Len(files) THEN "walk" ELSE "file_lstat"
    /\ UNCHANGED <<cfgVars, fs, stack, root, dirs, files, level, log, output, sort_key,
                   listed, walked, visits, gone>>

----------------------------------------------------------------------------
(* main: the scan's result, sorted *)

\* data = sort_entries(data, args.sort)
MainFlat ==
    /\ pc = "return"
    /\ mode = "flat"
    /\ \E k \in SortKeys :
          /\ sort_key' = k
          /\ output' = sort_entries(results, k)
    /\ pc' = "done"
    /\ UNCHANGED <<cfgVars, fs, stack, root, dirs, files, idx, level, stats, results, log,
                   listed, walked, visits, lastFilter, gone>>

\* the entries of levels lvl, lvl + 1, ... each level sorted by itself
RECURSIVE SortLevels(_, _, _, _)
SortLevels(data, k, lvl, top) ==
    IF lvl > top THEN <<>>
    ELSE sort_entries(SelectSeq(data, LAMBDA e : e.level = lvl), k)
         \o SortLevels(data, k, lvl + 1, top)

\* the highest level in data
MaxLevel(data) ==
    IF data = <<>> THEN 0
    ELSE CHOOSE m \in {data[i].level : i \in 1..Len(data)} :
            \A i \in 1..Len(data) : data[i].level <= m

\* the level-by-level sort of the recursive result
MainRec ==
    /\ pc = "return"
    /\ mode = "rec"
    /\ \E k \in SortKeys :
          /\ sort_key' = k
          /\ output' = SortLevels(results, k, 0, MaxLevel(results))
    /\ pc' = "done"
    /\ UNCHANGED <<cfgVars, fs, stack, root, dirs, files, idx, level, stats, results, log,
                   listed, walked, visits, lastFilter, gone>>

----------------------------------------------------------------------------
(* The environment: a listed node is removed while the scan runs *)

IsPrefix(a, b) == Len(a) <= Len(b) /\ SubSeq(b, 1, Len(a)) = a

\* the nodes the scan has listed and not yet finished with
Pending ==
    IF pc \in {"item_lstat", "item_flags"}
    THEN {<<files[i]>> : i \in idx..Len(files)}
    ELSE IF pc \in {"dir_lstat", "dir_flags", "file_lstat", "file_flags"}
    THEN {Append(root, files[i]) : i \in idx..Len(files)}
         \cup {Append(root, dirs[i]) : i \in 1..Len(dirs)}
         \cup (IF pc \in {"dir_lstat", "dir_flags"} THEN {root} ELSE {})
    ELSE {}

Vanish ==
    /\ Cardinality(gone) < MaxVanish
    /\ \E c \in Pending :
          /\ Exists(fs, c)
          /\ fs' = [d \in {e \in DOMAIN fs : ~IsPrefix(c, e)} |-> fs[d]]
          /\ gone' = gone \cup {c}
    /\ UNCHANGED <<cfgVars, pc, stack, root, dirs, files, idx, level, stats, results, log,
                   output, sort_key, listed, walked, visits, lastFilter>>

----------------------------------------------------------------------------

Next ==
    \/ Listdir
    \/ ItemLstat
    \/ ItemFlags
    \/ Walk
    \/ DirLstat
    \/ DirFlags
    \/ FileLstat
    \/ FileFlags
    \/ MainFlat
    \/ MainRec
    \/ Vanish

Spec == Init /\ [][Next]_vars

----------------------------------------------------------------------------
(* What the properties below speak of *)

Range(s) == {s[i] : i \in 1..Len(s)}

\* every node of every filesystem tried
AllNodes == UNION {DOMAIN f : f \in Filesystems}

\* the node a record was made for
NodesOf(r) == {c \in AllNodes : PathStr(path, c) = r.path}

\* some component of c is a hidden name
HasHidden(c) == \E i \in 1..Len(c) : c[i][1] = "."

Finished == pc \in {"return", "done"}

Warned(d) == \E m \in Range(log) : m.type = "truncated" /\ m.dir = d

Reported(t) == \E m \in Range(log) : m.type = t

\* explore_directory has listed the directory
FlatListed ==
    mode = "flat" /\ pc # "listdir" /\ ~Reported("missing") /\ ~Reported("denied")

\* the children of the scan root, in enumeration order, the hidden ones
\* left out unless they are shown
SuppressedListing ==
    SelectSeq(NameOrder,
              LAMBDA n : <<n>> \in DOMAIN fs /\ (show_hidden \/ n[1] # "."))

----------------------------------------------------------------------------
(* C1 *)

\* C1: explore_directory returns at most max_entries entries; when the
\* hidden-suppressed listing has more names than the cap, a truncation warning
\* with the true count and the cap is printed and exactly the first max_entries
\* names of the listing, in enumeration order, are the ones handed to
\* format_metadata and apply_filters.
C1_FlatCap ==
    mode = "flat" =>
        /\ Len(results) <= max_entries
        /\ FlatListed =>
            /\ gone = {} => listed = SuppressedListing
            /\ Len(listed) > max_entries =>
                /\ [type |-> "truncated", dir |-> <<>>, count |-> Len(listed),
                    cap |-> max_entries] \in Range(log)
                /\ files = SubSeq(listed, 1, max_entries)
            /\ idx <= Len(files) + 1
            /\ Finished => idx = Len(files) + 1
            /\ \A r \in Range(results) :
                  \E i \in 1..(idx - 1) : r.path = PathStr(path, <<files[i]>>)

\* a listing longer than a positive cap was cut and the cap's worth returned
C1_Witness ==
    /\ mode = "flat"
    /\ pc = "done"
    /\ max_entries > 0
    /\ Len(listed) > max_entries
    /\ Len(results) = max_entries

----------------------------------------------------------------------------
(* C2 *)

\* C2: in recursive_explore max_entries is a ceiling per directory: of every
\* directory handled, the subdirectories kept for descent and the files
\* passed to format_metadata number at most max_entries together, and a
\* warning naming the directory is printed whenever its subdirectories and
\* files together exceeded the cap.
C2_RecCap ==
    mode = "rec" =>
        \A v \in Range(visits) :
            /\ Len(v.dirs) + Len(v.files) <= max_entries
            /\ v.count > max_entries => Warned(v.dir)

----------------------------------------------------------------------------
(* C3 *)

\* what the filters are to return for entry e under the settings f
FilterContract(e, f) ==
    \/ e.is_dir
    \/ /\ ~f.ext.set \/ EndsWith(e.name, f.ext.val)
       /\ ~f.min_size.set \/ e.size_bytes >= f.min_size.val
       /\ ~f.name.set \/ Contains(Lower(e.name), Lower(f.name.val))

----------------------------------------------------------------------------
(* C4 *)

\* the position of e in s
IndexOf(s, e) == CHOOSE i \in 1..Len(s) : s[i] = e

\* out is inp's directories in their order, then every other entry of inp
\* sorted stably by key k
SortContract(inp, out, k) ==
    IF k = "none" THEN out = inp
    ELSE LET D == SelectSeq(inp, LAMBDA e : e.is_dir)
             N == SelectSeq(inp, LAMBDA e : ~e.is_dir)
             T == SubSeq(out, Len(D) + 1, Len(out))
         IN /\ Len(out) = Len(inp)
            /\ SubSeq(out, 1, Len(D)) = D
            /\ Range(T) = Range(N)
            /\ \A i, j \in 1..Len(T) :
                  i < j => /\ ~KeyLess(k, T[j], T[i])
                           /\ ~KeyLess(k, T[i], T[j]) => IndexOf(N, T[i]) < IndexOf(N, T[j])

\* C4: sort_entries returns the directories in their original order followed
\* by the whole non-directory partition (symbolic links with a missing target
\* included) sorted stably by the key, each input entry exactly once; with no
\* key the input is returned unchanged.  Stated of the call main makes on the
\* result of a scan of a filesystem nothing was removed from.
C4_Sort ==
    (mode = "flat" /\ pc = "done" /\ gone = {}) =>
        SortContract(results, output, sort_key)

----------------------------------------------------------------------------
(* C5 *)

\* C5: with depth = d, a directory whose level exceeds d is skipped entirely:
\* it is no entry, its contents are no entries, and the traversal does not go
\* below it; the result holds directory entries of level <= d and file
\* entries of level <= d + 1 only, and for d = 0 just the root and the files
\* directly in it.
C5_Depth ==
    (mode = "rec" /\ depth.set) =>
        /\ \A c \in walked : Len(c) <= depth.val + 1
        /\ \A r \in Range(results) :
              /\ r.level <= (IF r.is_dir THEN depth.val ELSE depth.val + 1)
              /\ \A c \in NodesOf(r) : Len(c) <= depth.val + 1
        /\ depth.val = 0 =>
              \A r \in Range(results) : \A c \in NodesOf(r) :
                  c = <<>> \/ (Len(c) = 1 /\ ~r.is_dir)

----------------------------------------------------------------------------
(* C6 *)

\* C6: for every root path string, every directory entry of the recursive
\* scan has its nesting depth below the root as its level (root 0, a
\* subdirectory its parent's level + 1), and every file entry the level of
\* its directory + 1.
C6_Level ==
    mode = "rec" =>
        \A r \in Range(results) : \A c \in NodesOf(r) : r.level = Len(c)

----------------------------------------------------------------------------
(* C7 *)

\* C7: when show_hidden is false no child whose name begins with "." is in
\* the result of either scan, recursive_explore never descends into a
\* subdirectory whose name begins with ".", and nothing under one is in the
\* result; when show_hidden is true such children are recorded like any other.
C7_Hidden ==
    /\ ~show_hidden =>
        /\ \A r \in Range(results) : \A c \in NodesOf(r) : ~HasHidden(c)
        /\ \A c \in walked : ~HasHidden(c)
    /\ (show_hidden /\ Finished /\ gone = {} /\ ~Reported("truncated")
            /\ ~depth.set /\ ~flt.ext.set /\ ~flt.min_size.set /\ ~flt.name.set) =>
          \A c \in DOMAIN fs :
              (Len(c) = 1 /\ HasHidden(c) /\ Listable(fs, <<>>)) =>
                  \E r \in Range(results) : c \in NodesOf(r)

----------------------------------------------------------------------------
(* C8 *)

\* C8: in both scans, a root that is missing, or whose listing is denied,
\* when the scan starts to enumerate it has a failure reported that tells the
\* two apart, and the scan returns an empty result; no empty result for an
\* unreadable root without a reported failure.
C8_RootFailure ==
    Finished =>
        /\ (~Exists(fs, <<>>) /\ gone = {}) => (results = <<>> /\ Reported("missing"))
        /\ (Exists(fs, <<>>) /\ ~fs[<<>>].readable) =>
              (results = <<>> /\ Reported("denied"))

----------------------------------------------------------------------------
(* C9 *)

\* C9: an entry that disappears between being listed and the end of its
\* metadata collection leaves no record; every record is a snapshot of a node
\* that existed, so no record has is_file, is_dir and is_link all false.
C9_NoVanishedRecord ==
    \A r \in Range(results) : r.is_file \/ r.is_dir \/ r.is_link

----------------------------------------------------------------------------
(* C10 *)

\* C10: on a static filesystem, with hidden names shown, no depth limit, no
\* filters and no directory over the cap, recursive_explore returns exactly
\* one entry for the root and one for every node below it (files,
\* subdirectories, symbolic links, those to directories included).
C10_Complete ==
    (mode = "rec" /\ Finished /\ gone = {} /\ show_hidden /\ ~depth.set
        /\ ~flt.ext.set /\ ~flt.min_size.set /\ ~flt.name.set
        /\ ~Reported("truncated") /\ Listable(fs, <<>>)) =>
        /\ Len(results) = Cardinality(DOMAIN fs)
        /\ \A c \in DOMAIN fs : \E r \in Range(results) : c \in NodesOf(r)

====
